---- MODULE Spec2Model ----
(***************************************************************************)
(* Resume relevance scoring: the evaluation pipeline of                    *)
(* app/services/evaluation_pipeline.py, the service wrapper of             *)
(* app/services/evaluation_service.py and the matchers they call           *)
(* (embedding_service.py, ats_compatibility_service.py, llm_service.py).   *)
(*                                                                         *)
(* Numbers: Python floats are modelled as exact rationals [n, d] in lowest *)
(* terms (d > 0), so that equality of two scores is equality of records.   *)
(* Strings that the code lowercases, joins or searches are sequences of    *)
(* one-character strings; free text is a sequence of fragments whose       *)
(* regular-expression matches are tabulated below.                         *)
(***************************************************************************)
EXTENDS Integers, Sequences, FiniteSets, TLC

(* ------------------------------ bounds -------------------------------- *)
\* longest must_have_skills list drawn by InitMatch
MaxMustHave == 2
\* longest good_to_have_skills list drawn by InitMatch
MaxGoodToHave == 1
\* longest resume skills list drawn by InitMatch
MaxSkills == 2
\* longest education list drawn by InitMatch
MaxEducation == 2
\* longest qualifications list drawn by InitMatch
MaxQualifications == 1
MaxListed == 3
MaxTasks == 2

(* ----------------------------- rationals ------------------------------ *)
Abs(x) == IF x < 0 THEN -x ELSE x

RECURSIVE GCD(_, _)
GCD(a, b) == IF b = 0 THEN a ELSE GCD(b, a % b)

\* n/d in lowest terms, d > 0
Rat(n, d) ==
    LET g == GCD(Abs(n), d)
    IN  [n |-> IF n < 0 THEN -(Abs(n) \div g) ELSE n \div g, d |-> d \div g]

RInt(i) == Rat(i, 1)
RAdd(x, y) == Rat(x.n * y.d + y.n * x.d, x.d * y.d)
RMul(x, y) == Rat(x.n * y.n, x.d * y.d)
RLeq(x, y) == x.n * y.d <= y.n * x.d
RLt(x, y) == x.n * y.d < y.n * x.d
RZero == RInt(0)
RHundred == RInt(100)

(* ------------------------------ strings ------------------------------- *)
\* str.lower() on one character
LowerChar(c) ==
    CASE c = "P" -> "p"
      [] c = "S" -> "s"
      [] c = "B" -> "b"
      [] c = "C" -> "c"
      [] c = "M" -> "m"
      [] OTHER -> c

\* str.lower()
Lower(s) == [i \in DOMAIN s |-> LowerChar(s[i])]

\* sep.join(list)
RECURSIVE Join(_, _)
Join(sep, list) ==
    IF list = <<>> THEN <<>>
    ELSE IF Len(list) = 1 THEN list[1]
    ELSE list[1] \o sep \o Join(sep, Tail(list))

\* the Python test `sub in text` on two strings
IsSubstring(sub, text) ==
    \/ Len(sub) = 0
    \/ \E i \in 1..(Len(text) - Len(sub) + 1) :
          SubSeq(text, i, i + Len(sub) - 1) = sub

\* the Python test `x in list`
InList(x, list) == \E i \in DOMAIN list : list[i] = x

\* [f(x) for x in list]
MapLower(list) == [i \in DOMAIN list |-> Lower(list[i])]

\* all lists over S no longer than n
SeqsUpTo(S, n) == UNION {[1..k -> S] : k \in 0..n}

Opt(cond, x) == IF cond THEN <<x>> ELSE <<>>

RECURSIVE Concat(_)
Concat(lists) == IF lists = <<>> THEN <<>> ELSE Head(lists) \o Concat(Tail(lists))

RECURSIVE SumSeq(_)
SumSeq(ints) == IF ints = <<>> THEN 0 ELSE Head(ints) + SumSeq(Tail(ints))

Range(list) == {list[i] : i \in DOMAIN list}

\* variant: the last n entries
Take_last(list, n) == SubSeq(list, IF Len(list) < n THEN 1 ELSE Len(list) - n + 1, Len(list))

\* list[:n]
Take(list, n) == SubSeq(list, 1, IF Len(list) < n THEN Len(list) ELSE n)

\* list.count(x)
CountOf(list, x) == Cardinality({i \in DOMAIN list : list[i] = x})

(* ------------------------------ free text ----------------------------- *)
(* A text is a sequence of whitespace-separated fragments.  For each       *)
(* fragment the tables give what the code's regular expressions and        *)
(* str.split() make of it.                                                 *)
Fragments ==
    {"python", "Python", "sql", "java", "c++", "<table>", "<img>",
     "<div style=x>", "column-count", "<header>", "<input>", "***********",
     "a@b.co", "555-123-4567"}

\* text.lower().split() on one fragment
SplitLower(f) ==
    CASE f = "Python" -> <<"python">>
      [] f = "<div style=x>" -> <<"<div", "style=x>">>
      [] OTHER -> <<f>>

\* re.sub(r'[^\w\s]', ' ', text.lower()).split() on one fragment
TokenizeFragment(f) ==
    CASE f = "Python" -> <<"python">>
      [] f = "c++" -> <<"c">>
      [] f = "<table>" -> <<"table">>
      [] f = "<img>" -> <<"img">>
      [] f = "<div style=x>" -> <<"div", "style", "x">>
      [] f = "column-count" -> <<"column", "count">>
      [] f = "<header>" -> <<"header">>
      [] f = "<input>" -> <<"input">>
      [] f = "***********" -> <<>>
      [] f = "a@b.co" -> <<"a", "b", "co">>
      [] f = "555-123-4567" -> <<"555", "123", "4567">>
      [] OTHER -> <<f>>

\* len(re.findall(self.ats_problems[problem_type], fragment, re.IGNORECASE))
PatternMatches(problem_type, f) ==
    CASE problem_type = "tables" -> IF f = "<table>" THEN 1 ELSE 0
      [] problem_type = "complex_formatting" -> IF f = "<div style=x>" THEN 1 ELSE 0
      [] problem_type = "special_chars" ->
            CASE f \in {"c++", "<table>", "<img>", "<header>", "<input>"} -> 2
              [] f = "<div style=x>" -> 3
              [] f = "***********" -> 11
              [] f = "a@b.co" -> 1
              [] OTHER -> 0
      [] problem_type = "images" -> IF f = "<img>" THEN 1 ELSE 0
      [] problem_type = "columns" -> IF f = "column-count" THEN 1 ELSE 0
      [] problem_type = "headers_footers" -> IF f = "<header>" THEN 1 ELSE 0
      [] problem_type = "text_boxes" -> IF f = "<input>" THEN 1 ELSE 0

\* len(re.findall(pattern, resume_text, re.IGNORECASE))
FindAll(problem_type, text) ==
    SumSeq([i \in DOMAIN text |-> PatternMatches(problem_type, text[i])])

\* re.search(contact_patterns[k], resume_text), k = 1 the e-mail, k = 2 the phone
ContactSearch(k, text) ==
    \E i \in DOMAIN text :
        (k = 1 /\ text[i] = "a@b.co") \/ (k = 2 /\ text[i] = "555-123-4567")

(* --------------------------- EmbeddingService ------------------------- *)
\* largest r with r * r <= x, by bisection on lo..hi
RECURSIVE ISqrtIn(_, _, _)
ISqrtIn(x, lo, hi) ==
    IF lo >= hi THEN lo
    ELSE LET mid == (lo + hi + 1) \div 2
         IN  IF mid * mid <= x THEN ISqrtIn(x, mid, hi) ELSE ISqrtIn(x, lo, mid - 1)

\* a power of two whose square exceeds x
RECURSIVE SqrtUpperBound(_, _)
SqrtUpperBound(x, h) == IF h * h > x THEN h ELSE SqrtUpperBound(x, 2 * h)

ISqrt(x) == ISqrtIn(x, 0, SqrtUpperBound(x, 1))

\* digits kept of an irrational square root
SqrtPrecision == 1000

\* math.sqrt(x) in exact arithmetic: exact for a perfect square, else rounded
\* up to 1/SqrtPrecision (the rounding error of a float is not modelled)
RSqrt(x) ==
    LET r == ISqrt(x)
    IN  IF r * r = x THEN RInt(r)
        ELSE Rat(ISqrt(x * SqrtPrecision * SqrtPrecision) + 1, SqrtPrecision)

\* x / y for y # 0
RDiv(x, y) == IF y.n < 0 THEN Rat(-(x.n * y.d), x.d * (-y.n)) ELSE Rat(x.n * y.d, x.d * y.n)

_tokenize(text) == Concat([i \in DOMAIN text |-> TokenizeFragment(text[i])])

\* variant: idf = math.log(2 / df) + 1, which weighs a word of one text alone
IdfUnits_of_one_text(df) == IF df = 2 THEN 1 ELSE 2

(* idf = math.log(2 / (df + 1)): 0 for df = 1 and ln(2/3) for df = 2.  The  *)
(* vectors are kept in units of ln(2/3), which cancels in the quotient.     *)
IdfUnits(df) == IF df = 2 THEN 1 ELSE 0

\* sum(a * b for a, b in zip(tfidf1, tfidf2)), the vectors indexed by word
RECURSIVE DotProduct(_, _, _)
DotProduct(words, a, b) ==
    IF words = {} THEN 0
    ELSE LET w == CHOOSE v \in words : TRUE
         IN  a[w] * b[w] + DotProduct(words \ {w}, a, b)

_tfidf_similarity(text1, text2) ==
    LET words1 == _tokenize(text1)
        words2 == _tokenize(text2)
        all_words == Range(words1) \cup Range(words2)
        df == [w \in all_words |->
                 (IF InList(w, words1) THEN 1 ELSE 0) + (IF InList(w, words2) THEN 1 ELSE 0)]
        tfidf1 == [w \in all_words |-> CountOf(words1, w) * IdfUnits(df[w])]
        tfidf2 == [w \in all_words |-> CountOf(words2, w) * IdfUnits(df[w])]
        dot_product == DotProduct(all_words, tfidf1, tfidf2)
        square1 == DotProduct(all_words, tfidf1, tfidf1)
        square2 == DotProduct(all_words, tfidf2, tfidf2)
    IN  IF words1 = <<>> \/ words2 = <<>> THEN RZero
        ELSE IF square1 = 0 \/ square2 = 0 THEN RZero
        ELSE RDiv(RInt(dot_product), RSqrt(square1 * square2))

_fallback_similarity(text1, text2) ==
    LET words1 == Range(Concat([i \in DOMAIN text1 |-> SplitLower(text1[i])]))
        words2 == Range(Concat([i \in DOMAIN text2 |-> SplitLower(text2[i])]))
        intersection == Cardinality(words1 \cap words2)
        union == Cardinality(words1 \cup words2)
    IN  IF union = 0 THEN RZero ELSE Rat(intersection, union)

\* what calculate_similarity hands back: a value from one rung, or the exception
\* that left the last rung; attempts are the rungs it called, in call order,
\* each with whether the call raised
Attempt(rung, failed) == [rung |-> rung, failed |-> failed]
Similarity(rung, value, attempts) ==
    [raised |-> FALSE, rung |-> rung, value |-> value, attempts |-> attempts]
SimilarityRaised(attempts) ==
    [raised |-> TRUE, rung |-> "none", value |-> RZero, attempts |-> attempts]

SimilarityFaults == SUBSET {"encode", "tfidf", "jaccard"}

\* self.np is set only when scikit-learn was imported, and this method is called
\* only when it was not: the attribute lookup raises and the handler returns 0.0
_manual_cosine_similarity(svc) == RZero

\* variant: a failed encoding raises at once, without a TF-IDF call
_sentence_transformer_similarity_skips_tfidf(text1, text2, svc, faults) ==
    IF "encode" \in faults
    THEN SimilarityRaised(<<Attempt("embedding", TRUE)>>)
    ELSE IF svc.sklearn_available
    THEN Similarity("embedding", svc.cosine, <<Attempt("embedding", FALSE)>>)
    ELSE Similarity("embedding", _manual_cosine_similarity(svc),
                    <<Attempt("embedding", FALSE)>>)

\* svc: [model, sklearn_available, cosine], cosine the backend's cosine of the
\* two embeddings; faults: the calls that raise
_sentence_transformer_similarity(text1, text2, svc, faults) ==
    IF "encode" \in faults
    THEN IF "tfidf" \in faults
         THEN SimilarityRaised(<<Attempt("embedding", TRUE), Attempt("tfidf", TRUE)>>)
         ELSE Similarity("tfidf", _tfidf_similarity(text1, text2),
                         <<Attempt("embedding", TRUE), Attempt("tfidf", FALSE)>>)
    ELSE IF svc.sklearn_available
    THEN Similarity("embedding", svc.cosine, <<Attempt("embedding", FALSE)>>)
    ELSE Similarity("embedding", _manual_cosine_similarity(svc),
                    <<Attempt("embedding", FALSE)>>)

calculate_similarity(text1, text2, svc, faults) ==
    LET first == IF svc.model
                 THEN _sentence_transformer_similarity(text1, text2, svc, faults)
                 ELSE IF "tfidf" \in faults
                 THEN SimilarityRaised(<<Attempt("tfidf", TRUE)>>)
                 ELSE Similarity("tfidf", _tfidf_similarity(text1, text2),
                                 <<Attempt("tfidf", FALSE)>>)
    IN  IF ~first.raised THEN first
        ELSE IF "jaccard" \in faults
        THEN SimilarityRaised(Append(first.attempts, Attempt("jaccard", TRUE)))
        ELSE Similarity("jaccard", _fallback_similarity(text1, text2),
                        Append(first.attempts, Attempt("jaccard", FALSE)))

(* ------------------------ ATSCompatibilityChecker --------------------- *)
\* variant: a table costs what an image costs
IssuePenalty_tables_25(issue) ==
    CASE issue \in {"Contains tables", "Contains images", "Missing experience section"} -> 25
      [] issue \in {"Too many special characters", "Headers/footers detected",
                    "Missing education section"} -> 15
      [] issue = "Incomplete contact information" -> 10
      [] OTHER -> 20

\* variant: an image costs what complex formatting costs
IssuePenalty_images_20(issue) ==
    CASE issue = "Contains tables" -> 30
      [] issue = "Too many special characters" -> 15
      [] issue = "Headers/footers detected" -> 15
      [] issue = "Missing experience section" -> 25
      [] issue = "Missing education section" -> 15
      [] issue = "Incomplete contact information" -> 10
      [] OTHER -> 20

IssuePenalty(issue) ==
    CASE issue = "Contains tables" -> 30
      [] issue = "Complex formatting detected" -> 20
      [] issue = "Too many special characters" -> 15
      [] issue = "Contains images" -> 25
      [] issue = "Multi-column layout" -> 20
      [] issue = "Headers/footers detected" -> 15
      [] issue = "Interactive elements" -> 20
      [] issue = "Missing skills section" -> 20
      [] issue = "Missing experience section" -> 25
      [] issue = "Missing education section" -> 15
      [] issue = "Incomplete contact information" -> 10

\* more than this many special characters are flagged
SpecialCharLimit == 10
\* a score of at least this is ATS friendly
FriendlyScore == 70

\* variant: a score of exactly FriendlyScore is not friendly
is_ats_friendly_strict(score) == score > FriendlyScore

\* is_ats_friendly = score >= 70, on the score before it is floored
is_ats_friendly(score) == score >= FriendlyScore

check_compatibility(resume_text, resume_data) ==
    LET issues == Concat(<<
            Opt(FindAll("tables", resume_text) > 0, "Contains tables"),
            Opt(FindAll("complex_formatting", resume_text) > 0, "Complex formatting detected"),
            Opt(FindAll("special_chars", resume_text) > SpecialCharLimit,
                "Too many special characters"),
            Opt(FindAll("images", resume_text) > 0, "Contains images"),
            Opt(FindAll("columns", resume_text) > 0, "Multi-column layout"),
            Opt(FindAll("headers_footers", resume_text) > 0, "Headers/footers detected"),
            Opt(FindAll("text_boxes", resume_text) > 0, "Interactive elements"),
            Opt(resume_data.skills = <<>>, "Missing skills section"),
            Opt(resume_data.experience = <<>>, "Missing experience section"),
            Opt(resume_data.education = <<>>, "Missing education section"),
            Opt(Cardinality({k \in {1, 2} : ContactSearch(k, resume_text)}) < 2,
                "Incomplete contact information") >>)
        score == 100 - SumSeq([i \in DOMAIN issues |-> IssuePenalty(issues[i])])
        friendly == is_ats_friendly(score)
        quick_fixes ==
            IF friendly THEN <<>>
            ELSE Concat(<<
                Opt(InList("Contains tables", issues), "Convert tables to plain text"),
                Opt(InList("Complex formatting detected", issues), "Use simple formatting"),
                Opt(InList("Contains images", issues), "Remove images and graphics"),
                Opt(InList("Missing skills section", issues), "Add a skills section"),
                Opt(InList("Missing experience section", issues), "Add work experience"),
                Opt(InList("Missing education section", issues), "Add education details"),
                Opt(InList("Incomplete contact information", issues),
                    "Add email and phone number") >>)
    IN  [is_ats_friendly |-> friendly,
         score |-> IF score < 0 THEN 0 ELSE score,
         main_issues |-> Take(issues, 3),
         quick_fixes |-> Take(quick_fixes, 3)]

(* ------------------------------ LLMService ---------------------------- *)
(* A generated text is a sequence of sentences [kind, items]: kind names   *)
(* the fixed wording, items are the strings joined into it, in order.      *)
Sentence(kind, items) == [kind |-> kind, items |-> items]

\* the dict {} and dict.get(key) with None read as the empty list
EmptyDict == [k \in {} |-> <<>>]
Get(dict, key) == IF key \in DOMAIN dict THEN dict[key] ELSE <<>>

\* what self.llm.invoke(messages) can do when an LLM is configured
LlmReplies == {<<"r", "1">>, <<"r", "2">>}
LlmError == <<"e", "r", "r">>
LlmOutcomes == LlmReplies \cup {LlmError}

\* the strings a set of skills can hold, in a fixed order
SkillStrings == << <<"p">>, <<"P">>, <<"s">>, <<"p", " ">> >>
SkillRank(x) == CHOOSE i \in DOMAIN SkillStrings : SkillStrings[i] = x

\* the per-process string hash seeds (PYTHONHASHSEED) told apart
HashSeeds == {0, 1}

\* iteration over a set of strings: the order follows the strings' hashes,
\* which the process's hash seed fixes
RECURSIVE IterateSet(_, _)
IterateSet(S, seed) ==
    IF S = {} THEN <<>>
    ELSE LET x == CHOOSE v \in S : \A w \in S :
                     IF seed = 0 THEN SkillRank(v) <= SkillRank(w)
                     ELSE SkillRank(v) >= SkillRank(w)
         IN  <<x>> \o IterateSet(S \ {x}, seed)

\* variant: the qualifications sentence comes before the skills sentence
_generate_basic_feedback_qualifications_first(missing_elements, final_score) ==
    LET feedback == Concat(<<
            Opt(Get(missing_elements, "missing_qualifications") # <<>>,
                Sentence("Consider adding qualifications: ",
                         Get(missing_elements, "missing_qualifications"))),
            Opt(Get(missing_elements, "missing_skills") # <<>>,
                Sentence("Missing must-have skills: ", Get(missing_elements, "missing_skills"))),
            Opt(RLt(final_score, RInt(60)),
                Sentence("Consider gaining more relevant experience in the required technologies.",
                         <<>>)) >>)
    IN  IF feedback = <<>>
        THEN <<Sentence("Your resume looks strong for this position!", <<>>)>>
        ELSE feedback

_generate_basic_feedback(missing_elements, final_score) ==
    LET feedback == Concat(<<
            Opt(Get(missing_elements, "missing_skills") # <<>>,
                Sentence("Missing must-have skills: ", Get(missing_elements, "missing_skills"))),
            Opt(Get(missing_elements, "missing_qualifications") # <<>>,
                Sentence("Consider adding qualifications: ",
                         Get(missing_elements, "missing_qualifications"))),
            Opt(RLt(final_score, RInt(60)),
                Sentence("Consider gaining more relevant experience in the required technologies.",
                         <<>>)) >>)
    IN  IF feedback = <<>>
        THEN <<Sentence("Your resume looks strong for this position!", <<>>)>>
        ELSE feedback

_analyze_basic_strengths(resume_data, jd_data, seed) ==
    LET matching_skills == Range(resume_data.skills) \cap Range(jd_data.must_have_skills)
        strengths == Concat(<<
            Opt(matching_skills # {},
                Sentence("Strong technical skills: ", IterateSet(matching_skills, seed))),
            Opt(resume_data.education # <<>>, Sentence("Relevant educational background", <<>>)),
            Opt(resume_data.experience # <<>>,
                Sentence("Professional experience in the field", <<>>)),
            Opt(resume_data.projects # <<>>, Sentence("Hands-on project experience", <<>>)) >>)
    IN  Take(strengths, 4)

\* variant: an LLM error leaves the feedback empty
generate_improvement_feedback_error_is_silent(missing_elements, final_score, llm, outcome) ==
    IF ~llm THEN _generate_basic_feedback(missing_elements, final_score)
    ELSE IF outcome = LlmError THEN <<>>
    ELSE <<Sentence("llm", <<outcome>>)>>

\* llm: whether self.llm is set; outcome: what invoke does if it is called
generate_improvement_feedback(missing_elements, final_score, llm, outcome) ==
    IF ~llm THEN _generate_basic_feedback(missing_elements, final_score)
    ELSE IF outcome = LlmError THEN _generate_basic_feedback(missing_elements, final_score)
    ELSE <<Sentence("llm", <<outcome>>)>>

analyze_resume_strengths(resume_data, jd_data, seed, llm, outcome) ==
    IF ~llm THEN _analyze_basic_strengths(resume_data, jd_data, seed)
    ELSE IF outcome = LlmError THEN _analyze_basic_strengths(resume_data, jd_data, seed)
    ELSE <<Sentence("llm", <<outcome>>)>>

(* --------------------------- EvaluationPipeline ----------------------- *)
\* the state evaluate_resume starts from: the two input records (the caller's
\* own dicts, by reference) and the nine computed fields
InitialState(resume_data, jd_data) ==
    [resume_data |-> resume_data, jd_data |-> jd_data,
     keyword_score |-> RZero, semantic_score |-> RZero, ats_score |-> RZero,
     final_score |-> RZero, verdict |-> "", missing_elements |-> EmptyDict,
     strengths |-> <<>>, improvement_feedback |-> <<>>, ats_feedback |-> <<>>]

\* the dict evaluate_resume returns from the final state
Returns(final_state) ==
    [keyword_score |-> final_state.keyword_score,
     semantic_score |-> final_state.semantic_score,
     ats_score |-> final_state.ats_score,
     final_score |-> final_state.final_score,
     verdict |-> final_state.verdict,
     missing_elements |-> final_state.missing_elements,
     strengths |-> final_state.strengths,
     improvement_feedback |-> final_state.improvement_feedback,
     ats_feedback |-> final_state.ats_feedback]

\* variant: the gap is reported in its lowercased form
missing_skills_lowercased(resume_data, jd_data) ==
    MapLower(SelectSeq(jd_data.must_have_skills,
                       LAMBDA skill : ~InList(Lower(skill), MapLower(resume_data.skills))))

\* variant: the last resume skill is not looked at
missing_skills_skip_last(resume_data, jd_data) ==
    SelectSeq(jd_data.must_have_skills,
              LAMBDA skill : ~InList(Lower(skill),
                                     MapLower(SubSeq(resume_data.skills, 1,
                                                     Len(resume_data.skills) - 1))))

\* the missing_skills comprehension of _find_missing_elements
missing_skills(resume_data, jd_data) ==
    SelectSeq(jd_data.must_have_skills,
              LAMBDA skill : ~InList(Lower(skill), MapLower(resume_data.skills)))

\* variant: the education side is searched as written, not lowercased
missing_qualifications_case_sensitive(resume_data, jd_data) ==
    SelectSeq(jd_data.qualifications,
              LAMBDA qual : ~IsSubstring(Lower(qual), Join(<<" ">>, resume_data.education)))

\* the missing_qualifications comprehension of _find_missing_elements
missing_qualifications(resume_data, jd_data) ==
    SelectSeq(jd_data.qualifications,
              LAMBDA qual : ~IsSubstring(Lower(qual),
                                         Lower(Join(<<" ">>, resume_data.education))))

_find_missing_elements(resume_data, jd_data) ==
    [missing_skills |-> missing_skills(resume_data, jd_data),
     missing_qualifications |-> missing_qualifications(resume_data, jd_data)]

\* variant: the resume side is compared as written, not lowercased
must_have_found_exact_case(resume_data, jd_data) ==
    {i \in DOMAIN jd_data.must_have_skills :
        InList(Lower(jd_data.must_have_skills[i]), resume_data.skills)}

\* the must-have skills the generator of found_must_have counts, by position
must_have_found(resume_data, jd_data) ==
    {i \in DOMAIN jd_data.must_have_skills :
        InList(Lower(jd_data.must_have_skills[i]), MapLower(resume_data.skills))}

\* variant: a good-to-have skill is looked up among the must-have skills
good_to_have_found_in_must_have(resume_data, jd_data) ==
    {i \in DOMAIN jd_data.good_to_have_skills :
        InList(Lower(jd_data.good_to_have_skills[i]), MapLower(jd_data.must_have_skills))}

\* the good-to-have skills the generator of found_good_to_have counts, by position
good_to_have_found(resume_data, jd_data) ==
    {i \in DOMAIN jd_data.good_to_have_skills :
        InList(Lower(jd_data.good_to_have_skills[i]), MapLower(resume_data.skills))}

\* each stage: raises says that the body of its try block raised
_keyword_analysis(state, raises) ==
    LET resume_data == state.resume_data
        jd_data == state.jd_data
        must == jd_data.must_have_skills
        good == jd_data.good_to_have_skills
        total_keywords == Len(must) + Len(good)
        found_must_have == Cardinality(must_have_found(resume_data, jd_data))
        found_good_to_have == Cardinality(good_to_have_found(resume_data, jd_data))
        must_have_weight == Rat(7, 10)
        good_to_have_weight == Rat(3, 10)
        must_have_score == IF Len(must) > 0
                           THEN RMul(Rat(found_must_have, Len(must)), must_have_weight)
                           ELSE RZero
        good_to_have_score == IF Len(good) > 0
                              THEN RMul(Rat(found_good_to_have, Len(good)), good_to_have_weight)
                              ELSE RZero
        keyword_score == IF total_keywords = 0 THEN RZero
                         ELSE RMul(RAdd(must_have_score, good_to_have_score), RHundred)
    IN  IF raises THEN [state EXCEPT !.keyword_score = RZero]
        ELSE [state EXCEPT !.keyword_score = keyword_score]

\* similarity: what calculate_similarity(resume_text, jd_text) handed back
_semantic_analysis(state, similarity) ==
    IF similarity.raised THEN [state EXCEPT !.semantic_score = RZero]
    ELSE [state EXCEPT !.semantic_score = RMul(similarity.value, RHundred)]

\* variant: the stage strips table markup from the resume text it was given
_ats_analysis_strips_markup(state, raises) ==
    LET resume_data == state.resume_data
        ats_result == check_compatibility(resume_data.extracted_text, resume_data)
    IN  IF raises THEN [state EXCEPT !.ats_score = RZero, !.ats_feedback = <<>>]
        ELSE [state EXCEPT !.ats_score = RInt(ats_result.score),
                           !.ats_feedback = ats_result.quick_fixes,
                           !.resume_data.extracted_text =
                               SelectSeq(@, LAMBDA f : PatternMatches("tables", f) = 0)]

_ats_analysis(state, raises) ==
    LET resume_data == state.resume_data
        ats_result == check_compatibility(resume_data.extracted_text, resume_data)
    IN  IF raises THEN [state EXCEPT !.ats_score = RZero, !.ats_feedback = <<>>]
        ELSE [state EXCEPT !.ats_score = RInt(ats_result.score),
                           !.ats_feedback = ats_result.quick_fixes]

\* variant: High from 70 up
verdict_high_from_70(final_score) ==
    IF RLeq(RInt(70), final_score) THEN "High"
    ELSE IF RLeq(RInt(60), final_score) THEN "Medium"
    ELSE "Low"

\* variant: the High band loses its lower bound
verdict_off_by_one(final_score) ==
    IF RLt(RInt(80), final_score) THEN "High"
    ELSE IF RLeq(RInt(60), final_score) THEN "Medium"
    ELSE "Low"

\* the verdict _score_calculation generates (its if / elif / else)
score_calculation_verdict(final_score) ==
    IF RLeq(RInt(80), final_score) THEN "High"
    ELSE IF RLeq(RInt(60), final_score) THEN "Medium"
    ELSE "Low"

_score_calculation(state, raises) ==
    LET keyword_weight == Rat(4, 10)
        semantic_weight == Rat(4, 10)
        ats_weight == Rat(2, 10)
        final_score == RAdd(RAdd(RMul(state.keyword_score, keyword_weight),
                                 RMul(state.semantic_score, semantic_weight)),
                            RMul(state.ats_score, ats_weight))
        verdict == score_calculation_verdict(final_score)
    IN  IF raises
        THEN [state EXCEPT !.final_score = RZero, !.verdict = "Low",
                           !.missing_elements = EmptyDict]
        ELSE [state EXCEPT !.final_score = final_score, !.verdict = verdict,
                           !.missing_elements =
                               _find_missing_elements(state.resume_data, state.jd_data)]

_strength_analysis(state, seed, llm, outcome, raises) ==
    IF raises THEN [state EXCEPT !.strengths = <<>>]
    ELSE [state EXCEPT !.strengths =
              analyze_resume_strengths(state.resume_data, state.jd_data, seed, llm, outcome)]

\* variant: a failed feedback stage also takes the missing elements back
_feedback_generation_clears_missing_elements(state, llm, outcome, raises) ==
    IF raises
    THEN [state EXCEPT !.improvement_feedback =
              <<Sentence("Unable to generate feedback at this time.", <<>>)>>,
                       !.missing_elements = EmptyDict]
    ELSE [state EXCEPT !.improvement_feedback =
              generate_improvement_feedback(state.missing_elements, state.final_score,
                                            llm, outcome)]

_feedback_generation(state, llm, outcome, raises) ==
    IF raises
    THEN [state EXCEPT !.improvement_feedback =
              <<Sentence("Unable to generate feedback at this time.", <<>>)>>]
    ELSE [state EXCEPT !.improvement_feedback =
              generate_improvement_feedback(state.missing_elements, state.final_score,
                                            llm, outcome)]

_fallback_evaluation ==
    [keyword_score |-> RZero, semantic_score |-> RZero, ats_score |-> RZero,
     final_score |-> RZero, verdict |-> "Low",
     missing_elements |-> [missing_skills |-> <<>>, missing_qualifications |-> <<>>],
     strengths |-> <<>>,
     improvement_feedback |->
        <<Sentence("Unable to complete evaluation. Please try again.", <<>>)>>,
     ats_feedback |-> <<>>]

(* --------------------------- EvaluationService ------------------------ *)
Service_calculate_keyword_score(resume_data, jd_data) ==
    LET must == jd_data.must_have_skills
        good == jd_data.good_to_have_skills
        total_keywords == Len(must) + Len(good)
        found_must_have ==
            Cardinality({i \in DOMAIN must : InList(Lower(must[i]), MapLower(resume_data.skills))})
        found_good_to_have ==
            Cardinality({i \in DOMAIN good : InList(Lower(good[i]), MapLower(resume_data.skills))})
        must_have_score == IF Len(must) > 0
                           THEN RMul(Rat(found_must_have, Len(must)), Rat(7, 10))
                           ELSE RZero
        good_to_have_score == IF Len(good) > 0
                              THEN RMul(Rat(found_good_to_have, Len(good)), Rat(3, 10))
                              ELSE RZero
    IN  IF total_keywords = 0 THEN RZero
        ELSE RMul(RAdd(must_have_score, good_to_have_score), RHundred)

Service_calculate_final_score(keyword_score, semantic_score) ==
    RAdd(RMul(keyword_score, Rat(6, 10)), RMul(semantic_score, Rat(4, 10)))

Service_find_missing_elements(resume_data, jd_data) ==
    [missing_skills |->
        SelectSeq(jd_data.must_have_skills,
                  LAMBDA skill : ~InList(Lower(skill), MapLower(resume_data.skills))),
     missing_qualifications |->
        SelectSeq(jd_data.qualifications,
                  LAMBDA qual : ~IsSubstring(Lower(qual),
                                             Lower(Join(<<" ">>, resume_data.education))))]

Service_generate_verdict(final_score) ==
    IF RLeq(RInt(80), final_score) THEN "High"
    ELSE IF RLeq(RInt(60), final_score) THEN "Medium"
    ELSE "Low"

Service_generate_feedback(missing_elements, final_score) ==
    LET feedback == Concat(<<
            Opt(missing_elements.missing_skills # <<>>,
                Sentence("Missing must-have skills: ", missing_elements.missing_skills)),
            Opt(missing_elements.missing_qualifications # <<>>,
                Sentence("Consider adding qualifications: ",
                         missing_elements.missing_qualifications)),
            Opt(RLt(final_score, RInt(60)),
                Sentence("Consider gaining more relevant experience in the required technologies.",
                         <<>>)) >>)
    IN  IF feedback = <<>>
        THEN <<Sentence("Your resume looks strong for this position!", <<>>)>>
        ELSE feedback

\* similarity: what calculate_similarity handed back (it did not raise)
_basic_evaluation(resume_data, jd_data, similarity) ==
    LET keyword_score == Service_calculate_keyword_score(resume_data, jd_data)
        semantic_score == RMul(similarity.value, RHundred)
        final_score == Service_calculate_final_score(keyword_score, semantic_score)
        missing_elements == Service_find_missing_elements(resume_data, jd_data)
    IN  [keyword_score |-> keyword_score, semantic_score |-> semantic_score,
         ats_score |-> RZero, final_score |-> final_score,
         verdict |-> Service_generate_verdict(final_score),
         missing_elements |-> missing_elements,
         strengths |-> <<>>,
         improvement_feedback |-> Service_generate_feedback(missing_elements, final_score),
         ats_feedback |-> <<>>]

\* store_resume_embedding / store_jd_embedding: the ids held by a collection
\* after an add of id (an id is the hash of its text: the text stands for it)
store_embedding(collection, id, env) ==
    IF env.chroma /\ env.model THEN collection \cup {id} ELSE collection

(* ---------------------------- state machine --------------------------- *)
VARIABLES
    resume_data,    \* the caller's resume dict
    jd_data,        \* the caller's job dict
    env,            \* what the process was constructed with: model, sklearn_available,
                    \* cosine (the backend's answer for the two texts), chroma, llm,
                    \* langgraph, hashseed
    pc,             \* where the call is
    state,          \* the pipeline's EvaluationState
    result,         \* what evaluate_resume returned (the pipeline's, then the service's)
    store,          \* the ids in the two ChromaDB collections
    prev,           \* an earlier call of this service, kept for comparison
    log,            \* the messages handed to logger.error, in order
    db,             \* the committed rows of the database the Celery tasks share
    tasks           \* each process_resume_evaluation task: where it is, what it returned

vars == <<resume_data, jd_data, env, pc, state, result, store, prev, log, db, tasks>>

\* no database and no task: the services are called directly
NoDatabase == [resumes |-> {}, jobs |-> {}, evaluations |-> {}]
NoTasks == <<>>

NoCall == [called |-> FALSE]
NoResult == EmptyDict

Stages == {"keyword_analysis", "semantic_analysis", "ats_analysis", "score_calculation",
           "strength_analysis", "feedback_generation"}

\* the strings of the pools
Sp == <<"p">>
SP == <<"P">>
Ss == <<"s">>
SpBlank == <<"p", " ">>
Qbs == <<"b", "s">>
QBs == <<"B", "s">>
Qms == <<"m", "s">>
Qcs == <<"c", "s">>
QbsCs == <<"b", "s", " ", "c", "s">>

\* the texts of the pools
TextClean == <<"Python", "sql", "a@b.co", "555-123-4567">>
TextTable == <<"<table>", "java">>
TextJob == <<"python", "sql", "sql">>

Resume(skills, education, experience, projects, text) ==
    [skills |-> skills, education |-> education, experience |-> experience,
     projects |-> projects, extracted_text |-> text]

Job(must, good, quals, description) ==
    [must_have_skills |-> must, good_to_have_skills |-> good, qualifications |-> quals,
     description |-> description]

Env(model, sklearn, cosine, chroma, llm, langgraph, hashseed) ==
    [model |-> model, sklearn_available |-> sklearn, cosine |-> cosine, chroma |-> chroma,
     llm |-> llm, langgraph |-> langgraph, hashseed |-> hashseed]

\* the cosines an embedding backend is drawn to answer with
Cosines == {Rat(-1, 4), Rat(1, 2), RInt(1)}

(* Spec: one call of EvaluationService.evaluate_resume, stage by stage, any  *)
(* try block free to raise.                                                  *)
PipelineResumes ==
    {Resume(<<SP, Ss>>, <<Qbs>>, <<Qcs>>, <<>>, TextClean),
     Resume(<<SP>>, <<>>, <<Qcs>>, <<Qcs>>, TextClean),
     Resume(<<>>, <<>>, <<>>, <<>>, TextTable)}

PipelineJobs ==
    {Job(<<Sp, Ss>>, <<>>, <<Qbs>>, TextJob),
     Job(<<Sp>>, <<Ss>>, <<Qms>>, TextJob),
     Job(<<>>, <<>>, <<>>, <<>>)}

PipelineEnvs ==
    {Env(FALSE, FALSE, RZero, FALSE, llm, FALSE, 0) : llm \in BOOLEAN}
    \cup {Env(TRUE, FALSE, RZero, TRUE, FALSE, langgraph, 0) : langgraph \in BOOLEAN}
    \cup {Env(TRUE, TRUE, c, TRUE, FALSE, TRUE, 1) : c \in Cosines}

Init ==
    /\ resume_data \in PipelineResumes
    /\ jd_data \in PipelineJobs
    /\ env \in PipelineEnvs
    /\ pc = "keyword_analysis"
    /\ state = InitialState(resume_data, jd_data)
    /\ result = NoResult
    /\ store = [resumes |-> {}, jds |-> {}]
    /\ prev = NoCall
    /\ log = <<>>
    /\ db = NoDatabase
    /\ tasks = NoTasks

\* the caller's records are the dicts the state refers to: what a stage does
\* to state['resume_data'] or state['jd_data'] is done to them
InputsFollowState ==
    /\ resume_data' = state'.resume_data
    /\ jd_data' = state'.jd_data

\* logger.error(message) when the handler ran
Logged(raised, message) == IF raised THEN <<message>> ELSE <<>>

\* the errors calculate_similarity and the rungs under it log
SimilarityLog(similarity, svc) ==
    Concat([i \in DOMAIN similarity.attempts |->
        LET attempt == similarity.attempts[i]
        IN  CASE attempt.rung = "embedding" ->
                    IF attempt.failed THEN <<"Error in sentence transformer similarity">>
                    ELSE Logged(~svc.sklearn_available, "Error in manual cosine similarity")
              [] attempt.rung = "tfidf" -> Logged(attempt.failed, "Error calculating similarity")
              [] attempt.rung = "jaccard" -> Logged(attempt.failed, "Error in semantic analysis")])

\* variant: the graph wired from ats_analysis straight to strength_analysis
graph_edge_skips_score_calculation(node) ==
    CASE node = "keyword_analysis" -> "semantic_analysis"
      [] node = "semantic_analysis" -> "ats_analysis"
      [] node = "ats_analysis" -> "strength_analysis"
      [] node = "score_calculation" -> "strength_analysis"
      [] node = "strength_analysis" -> "feedback_generation"
      [] node = "feedback_generation" -> "pipeline_return"

\* _build_graph: the edges added to the workflow; END hands the final state
\* back to evaluate_resume
graph_edge(node) ==
    CASE node = "keyword_analysis" -> "semantic_analysis"
      [] node = "semantic_analysis" -> "ats_analysis"
      [] node = "ats_analysis" -> "score_calculation"
      [] node = "score_calculation" -> "strength_analysis"
      [] node = "strength_analysis" -> "feedback_generation"
      [] node = "feedback_generation" -> "pipeline_return"

\* _basic_evaluation_pipeline: the statement after the call of a stage
sequential_next(node) ==
    CASE node = "keyword_analysis" -> "semantic_analysis"
      [] node = "semantic_analysis" -> "ats_analysis"
      [] node = "ats_analysis" -> "score_calculation"
      [] node = "score_calculation" -> "strength_analysis"
      [] node = "strength_analysis" -> "feedback_generation"
      [] node = "feedback_generation" -> "pipeline_return"

\* evaluate_resume runs the compiled graph when there is one, the sequential
\* pipeline otherwise
next_stage(langgraph, node) ==
    IF langgraph THEN graph_edge(node) ELSE sequential_next(node)

KeywordAnalysis ==
    /\ pc = "keyword_analysis"
    /\ \E raises \in BOOLEAN :
          /\ state' = _keyword_analysis(state, raises)
          /\ log' = log \o Logged(raises, "Error in keyword analysis")
    /\ InputsFollowState
    /\ pc' = next_stage(env.langgraph, pc)
    /\ UNCHANGED <<env, result, store, prev, db, tasks>>

SemanticAnalysis ==
    /\ pc = "semantic_analysis"
    /\ \E faults \in SimilarityFaults :
          LET similarity == calculate_similarity(state.resume_data.extracted_text,
                                                 state.jd_data.description, env, faults)
          IN  /\ state' = _semantic_analysis(state, similarity)
              /\ log' = log \o SimilarityLog(similarity, env)
    /\ InputsFollowState
    /\ pc' = next_stage(env.langgraph, pc)
    /\ UNCHANGED <<env, result, store, prev, db, tasks>>

AtsAnalysis ==
    /\ pc = "ats_analysis"
    /\ \E raises \in BOOLEAN :
          /\ state' = _ats_analysis(state, raises)
          /\ log' = log \o Logged(raises, "Error in ATS analysis")
    /\ InputsFollowState
    /\ pc' = next_stage(env.langgraph, pc)
    /\ UNCHANGED <<env, result, store, prev, db, tasks>>

ScoreCalculation ==
    /\ pc = "score_calculation"
    /\ \E raises \in BOOLEAN :
          /\ state' = _score_calculation(state, raises)
          /\ log' = log \o Logged(raises, "Error in score calculation")
    /\ InputsFollowState
    /\ pc' = next_stage(env.langgraph, pc)
    /\ UNCHANGED <<env, result, store, prev, db, tasks>>

StrengthAnalysis ==
    /\ pc = "strength_analysis"
    /\ \E raises \in BOOLEAN, outcome \in LlmOutcomes :
          /\ state' = _strength_analysis(state, env.hashseed, env.llm, outcome, raises)
          /\ log' = log \o Logged(env.llm /\ outcome = LlmError,
                                  "Error analyzing resume strengths")
                        \o Logged(raises, "Error in strength analysis")
    /\ InputsFollowState
    /\ pc' = next_stage(env.langgraph, pc)
    /\ UNCHANGED <<env, result, store, prev, db, tasks>>

FeedbackGeneration ==
    /\ pc = "feedback_generation"
    /\ \E raises \in BOOLEAN, outcome \in LlmOutcomes :
          /\ state' = _feedback_generation(state, env.llm, outcome, raises)
          /\ log' = log \o Logged(env.llm /\ outcome = LlmError,
                                  "Error generating LLM feedback")
                        \o Logged(raises, "Error in feedback generation")
    /\ InputsFollowState
    /\ pc' = next_stage(env.langgraph, pc)
    /\ UNCHANGED <<env, result, store, prev, db, tasks>>

\* EvaluationPipeline.evaluate_resume returns the nine fields of the final state
PipelineReturn ==
    /\ pc = "pipeline_return"
    /\ result' = Returns(state)
    /\ pc' = "store_embeddings"
    /\ UNCHANGED <<resume_data, jd_data, env, state, store, prev, log, db, tasks>>

\* self.graph.invoke raises: evaluate_resume returns _fallback_evaluation
GraphInvokeRaises ==
    /\ env.langgraph
    /\ pc \in Stages
    /\ result' = _fallback_evaluation
    /\ log' = Append(log, "Error in evaluation pipeline")
    /\ pc' = "store_embeddings"
    /\ UNCHANGED <<resume_data, jd_data, env, state, store, prev, db, tasks>>

\* EvaluationService.evaluate_resume after the pipeline returned: the ids are
\* hashed and the embeddings stored, or the try block raises
StoreEmbeddings ==
    /\ pc = "store_embeddings"
    /\ \E raises \in BOOLEAN :
          IF raises
          THEN pc' = "basic_evaluation" /\ UNCHANGED store
          ELSE /\ store' = [resumes |-> store_embedding(store.resumes,
                                                       resume_data.extracted_text, env),
                            jds |-> store_embedding(store.jds, jd_data.description, env)]
               /\ pc' = "returned"
    /\ UNCHANGED <<resume_data, jd_data, env, state, result, prev, log, db, tasks>>

\* the handler of EvaluationService.evaluate_resume: _basic_evaluation, which
\* has no handler of its own
BasicEvaluation ==
    /\ pc = "basic_evaluation"
    /\ \E faults \in SimilarityFaults :
          LET similarity == calculate_similarity(resume_data.extracted_text,
                                                 jd_data.description, env, faults)
          IN  /\ IF similarity.raised
                 THEN pc' = "raised" /\ UNCHANGED result
                 ELSE /\ result' = _basic_evaluation(resume_data, jd_data, similarity)
                      /\ pc' = "returned"
              /\ log' = log \o SelectSeq(SimilarityLog(similarity, env),
                                         LAMBDA m : m # "Error in semantic analysis")
    /\ UNCHANGED <<resume_data, jd_data, env, state, store, prev, db, tasks>>

Next ==
    \/ KeywordAnalysis
    \/ SemanticAnalysis
    \/ AtsAnalysis
    \/ ScoreCalculation
    \/ StrengthAnalysis
    \/ FeedbackGeneration
    \/ PipelineReturn
    \/ GraphInvokeRaises
    \/ StoreEmbeddings
    \/ BasicEvaluation

Spec == Init /\ [][Next]_vars

(* SpecBackend: the same call, with an embedding backend that is free not to *)
(* answer. self.model.encode is called with no timeout and nothing around    *)
(* the call bounds it: a call that does not return leaves the evaluation     *)
(* inside it. Every step that can be taken is eventually taken.              *)
EncodeNeverReturns ==
    /\ env.model
    /\ pc \in {"semantic_analysis", "basic_evaluation"}
    /\ pc' = "encode"
    /\ UNCHANGED <<resume_data, jd_data, env, state, result, store, prev, log, db, tasks>>

NextBackend == Next \/ EncodeNeverReturns

\* where a call is when no statement of it is left to run
Ended == {"returned", "raised", "encode"}

Positions == Stages \cup {"pipeline_return", "store_embeddings", "basic_evaluation"} \cup Ended

\* a call that has not ended runs its next statement
Proceeds == pc \notin Ended /\ pc' \in Positions \ {pc}

SpecBackend == Init /\ [][NextBackend]_vars /\ WF_pc(Proceeds)

(* SpecCalls: whole calls of evaluate_resume in which no try block raises,   *)
(* on every resume and job within the bounds; a call may be repeated, in the *)
(* same process or after a restart, or repeated with a missing skill added.  *)

\* EvaluationPipeline._basic_evaluation_pipeline when no stage raises and no
\* LLM is configured
Pipeline_evaluate_resume(resume, job, e) ==
    LET s1 == _keyword_analysis(InitialState(resume, job), FALSE)
        s2 == _semantic_analysis(s1, calculate_similarity(resume.extracted_text,
                                                          job.description, e, {}))
        s3 == _ats_analysis(s2, FALSE)
        s4 == _score_calculation(s3, FALSE)
        s5 == _strength_analysis(s4, e.hashseed, e.llm, LlmError, FALSE)
    IN  _feedback_generation(s5, e.llm, LlmError, FALSE)

MustHaveStrings == {Sp, SP, Ss}
GoodToHaveStrings == {Sp, Ss}
ResumeSkillStrings == {SP, Ss, SpBlank}
QualificationStrings == {QBs, QbsCs, Qms}
EducationStrings == {Qbs, Qcs, QBs}

CallEnvs == {Env(FALSE, FALSE, RZero, FALSE, FALSE, FALSE, h) : h \in HashSeeds}

InitCalls ==
    /\ \/ /\ resume_data \in {Resume(skills, <<Qbs>>, <<Qcs>>, <<>>, TextClean) :
                                 skills \in SeqsUpTo(ResumeSkillStrings, MaxSkills)}
          /\ jd_data \in {Job(must, good, <<Qbs>>, TextJob) :
                             must \in SeqsUpTo(MustHaveStrings, MaxMustHave),
                             good \in SeqsUpTo(GoodToHaveStrings, MaxGoodToHave)}
       \/ /\ resume_data \in {Resume(<<SP>>, education, <<>>, <<Qcs>>, TextTable) :
                                 education \in SeqsUpTo(EducationStrings, MaxEducation)}
          /\ jd_data \in {Job(<<Sp>>, <<Ss>>, quals, TextJob) :
                             quals \in SeqsUpTo(QualificationStrings, MaxQualifications)}
    /\ env \in CallEnvs
    /\ pc = "ready"
    /\ state = InitialState(resume_data, jd_data)
    /\ result = NoResult
    /\ store = [resumes |-> {}, jds |-> {}]
    /\ prev = NoCall
    /\ log = <<>>
    /\ db = NoDatabase
    /\ tasks = NoTasks

\* EvaluationService.evaluate_resume, start to return
Evaluate ==
    /\ pc = "ready"
    /\ state' = Pipeline_evaluate_resume(resume_data, jd_data, env)
    /\ InputsFollowState
    /\ result' = Returns(state')
    /\ store' = [resumes |-> store_embedding(store.resumes, resume_data.extracted_text, env),
                 jds |-> store_embedding(store.jds, jd_data.description, env)]
    /\ pc' = "returned"
    /\ UNCHANGED <<env, prev, log, db, tasks>>

Remembered(added) ==
    [called |-> TRUE, resume_data |-> resume_data, jd_data |-> jd_data, result |-> result,
     added |-> added]

\* the caller evaluates the same pair again
EvaluateAgain ==
    /\ pc = "returned"
    /\ ~prev.called
    /\ prev' = Remembered(<<>>)
    /\ pc' = "ready"
    /\ UNCHANGED <<resume_data, jd_data, env, state, result, store, log, db, tasks>>

\* the caller adds a skill reported missing to resume.skills and evaluates again
AddMissingSkill ==
    /\ pc = "returned"
    /\ ~prev.called
    /\ \E i \in DOMAIN result.missing_elements.missing_skills :
          LET skill == result.missing_elements.missing_skills[i]
          IN  /\ prev' = Remembered(<<skill>>)
              /\ resume_data' = [resume_data EXCEPT !.skills = Append(@, skill)]
    /\ pc' = "ready"
    /\ UNCHANGED <<jd_data, env, state, result, store, log, db, tasks>>

\* the next call is served by another process of the same configuration (a
\* restarted server, another worker): its string hash seed is its own
Restart ==
    /\ pc = "ready"
    /\ prev.called
    /\ \E seed \in HashSeeds \ {env.hashseed} : env' = [env EXCEPT !.hashseed = seed]
    /\ UNCHANGED <<resume_data, jd_data, pc, state, result, store, prev, log, db, tasks>>

NextCalls ==
    \/ Evaluate
    \/ EvaluateAgain
    \/ AddMissingSkill
    \/ Restart

SpecCalls == InitCalls /\ [][NextCalls]_vars

(* SpecAts: one call of ATSCompatibilityChecker.check_compatibility on every *)
(* text of a few fragments and every choice of present sections.             *)
MaxFragments == 3

AtsFragments ==
    {"python", "<table>", "<img>", "<div style=x>", "column-count", "<header>", "<input>",
     "***********", "a@b.co", "555-123-4567"}

NoJob == Job(<<>>, <<>>, <<>>, <<>>)
IdleEnv == Env(FALSE, FALSE, RZero, FALSE, FALSE, FALSE, 0)

InitAts ==
    /\ resume_data \in {Resume(skills, education, experience, <<>>, text) :
                           skills \in {<<>>, <<SP>>},
                           education \in {<<>>, <<Qbs>>},
                           experience \in {<<>>, <<Qcs>>},
                           text \in SeqsUpTo(AtsFragments, MaxFragments)}
    /\ jd_data = NoJob
    /\ env = IdleEnv
    /\ pc = "ready"
    /\ state = InitialState(resume_data, jd_data)
    /\ result = NoResult
    /\ store = [resumes |-> {}, jds |-> {}]
    /\ prev = NoCall
    /\ log = <<>>
    /\ db = NoDatabase
    /\ tasks = NoTasks

\* ATSCompatibilityChecker.check_compatibility(resume_text, resume_data)
CheckCompatibility ==
    /\ pc = "ready"
    /\ result' = check_compatibility(resume_data.extracted_text, resume_data)
    /\ pc' = "checked"
    /\ UNCHANGED <<resume_data, jd_data, env, state, store, prev, log, db, tasks>>

NextAts == CheckCompatibility

SpecAts == InitAts /\ [][NextAts]_vars

(* SpecSimilarity: one call of EmbeddingService.calculate_similarity on every *)
(* pair of short texts, with and without an embedding model, any rung free   *)
(* to raise.                                                                 *)
MaxWords == 2

SimilarityFragments == {"python", "Python", "sql", "***********"}

SimilarityEnvs ==
    {Env(FALSE, FALSE, RZero, FALSE, FALSE, FALSE, 0),
     Env(TRUE, FALSE, RZero, FALSE, FALSE, FALSE, 0)}
    \cup {Env(TRUE, TRUE, c, FALSE, FALSE, FALSE, 0) : c \in Cosines}

InitSimilarity ==
    /\ resume_data \in {Resume(<<>>, <<>>, <<>>, <<>>, text) :
                           text \in SeqsUpTo(SimilarityFragments, MaxWords)}
    /\ jd_data \in {Job(<<>>, <<>>, <<>>, text) :
                       text \in SeqsUpTo(SimilarityFragments, MaxWords)}
    /\ env \in SimilarityEnvs
    /\ pc = "ready"
    /\ state = InitialState(resume_data, jd_data)
    /\ result = NoResult
    /\ store = [resumes |-> {}, jds |-> {}]
    /\ prev = NoCall
    /\ log = <<>>
    /\ db = NoDatabase
    /\ tasks = NoTasks

\* EmbeddingService.calculate_similarity(text1, text2)
CalculateSimilarity ==
    /\ pc = "ready"
    /\ \E faults \in SimilarityFaults :
          LET similarity == calculate_similarity(resume_data.extracted_text,
                                                 jd_data.description, env, faults)
          IN  /\ result' = similarity
              /\ log' = log \o SelectSeq(SimilarityLog(similarity, env),
                                         LAMBDA m : m # "Error in semantic analysis")
    /\ pc' = "compared"
    /\ UNCHANGED <<resume_data, jd_data, env, state, store, prev, db, tasks>>

NextSimilarity == CalculateSimilarity

SpecSimilarity == InitSimilarity /\ [][NextSimilarity]_vars

(* SpecScoring: the lexical matcher and the aggregation over skill lists     *)
(* with repeated and padded entries, the two other sub-scores drawn from     *)
(* [0, 100].                                                                 *)
SubScores == {RZero, RInt(70), RHundred}

InitScoring ==
    /\ resume_data \in {Resume(skills, <<Qbs>>, <<Qcs>>, <<>>, TextClean) :
                           skills \in SeqsUpTo(ResumeSkillStrings, MaxSkills)}
    /\ jd_data \in {Job(must, good, <<Qbs>>, TextJob) :
                       must \in SeqsUpTo(MustHaveStrings, MaxListed),
                       good \in {<<>>, <<Ss>>}}
    /\ env = IdleEnv
    /\ pc = "keyword_analysis"
    /\ state = InitialState(resume_data, jd_data)
    /\ result = NoResult
    /\ store = [resumes |-> {}, jds |-> {}]
    /\ prev = NoCall
    /\ log = <<>>
    /\ db = NoDatabase
    /\ tasks = NoTasks

\* _keyword_analysis, then the two other matchers leave their sub-scores
MatchKeywords ==
    /\ pc = "keyword_analysis"
    /\ \E semantic_score \in SubScores, ats_score \in SubScores :
          state' = [_keyword_analysis(state, FALSE) EXCEPT !.semantic_score = semantic_score,
                                                           !.ats_score = ats_score]
    /\ InputsFollowState
    /\ pc' = "score_calculation"
    /\ UNCHANGED <<env, result, store, prev, log, db, tasks>>

\* _score_calculation, and the fields of the state as they are returned
Aggregate ==
    /\ pc = "score_calculation"
    /\ state' = _score_calculation(state, FALSE)
    /\ InputsFollowState
    /\ result' = Returns(state')
    /\ pc' = "aggregated"
    /\ UNCHANGED <<env, store, prev, log, db, tasks>>

NextScoring == MatchKeywords \/ Aggregate

SpecScoring == InitScoring /\ [][NextScoring]_vars

(* SpecTasks: requests for the evaluation of one resume against one job, and *)
(* the process_resume_evaluation tasks they queue, run by workers that       *)
(* interleave between their database round trips. A query reads the          *)
(* committed rows; a commit writes the session's pending row or raises.      *)
Tasks == 1..MaxTasks

TheResume == "r1"
TheJob == "j1"

ResumeRow(id, is_processed) == [id |-> id, is_processed |-> is_processed]
EvaluationRow(id, job_id, resume_id) == [id |-> id, job_id |-> job_id, resume_id |-> resume_id]

\* variant: the evaluations table without its unique constraint
UniqueViolation_unenforced(evaluations, job_id, resume_id) == FALSE

\* Evaluation.__table_args__: UniqueConstraint('job_id', 'resume_id'); an
\* insert of a second row for the pair violates it
UniqueViolation(evaluations, job_id, resume_id) ==
    \E e \in evaluations : e.job_id = job_id /\ e.resume_id = resume_id

\* Evaluation.query.filter_by(job_id=job_id, resume_id=resume_id)
ExistingEvaluations(job_id, resume_id) ==
    {e \in db.evaluations : e.job_id = job_id /\ e.resume_id = resume_id}

\* a request: at, where it is; status and message, what its task returned;
\* evaluation_id, the id of the row the return names
NewRequest == [at |-> "create_evaluation", status |-> "none", message |-> "",
               evaluation_id |-> 0]

\* the except clause of the task: rollback, and the error is returned
Failed(task, message) ==
    [task EXCEPT !.at = "done", !.status = "error", !.message = message]

CallVars == <<resume_data, jd_data, env, pc, state, result, store, prev, log>>

InitTasks ==
    /\ resume_data = Resume(<<>>, <<>>, <<>>, <<>>, <<>>)
    /\ jd_data = NoJob
    /\ env = IdleEnv
    /\ pc = "tasks"
    /\ state = InitialState(resume_data, jd_data)
    /\ result = NoResult
    /\ store = [resumes |-> {}, jds |-> {}]
    /\ prev = NoCall
    /\ log = <<>>
    /\ db \in {[resumes |-> resumes, jobs |-> jobs, evaluations |-> {}] :
                  resumes \in {{}, {ResumeRow(TheResume, FALSE)}, {ResumeRow(TheResume, TRUE)}},
                  jobs \in {{}, {TheJob}}}
    /\ tasks = [t \in Tasks |-> NewRequest]

\* routes.create_evaluation: the request is refused when an evaluation of the
\* pair exists, else the task is queued
CreateEvaluation(t) ==
    /\ tasks[t].at = "create_evaluation"
    /\ tasks' = [tasks EXCEPT ![t].at =
                    IF ExistingEvaluations(TheJob, TheResume) # {} THEN "refused"
                    ELSE "get_resume"]
    /\ UNCHANGED <<db, CallVars>>

\* resume = Resume.query.get(resume_id)
GetResume(t) ==
    /\ tasks[t].at = "get_resume"
    /\ LET rows == {r \in db.resumes : r.id = TheResume}
       IN  tasks' = [tasks EXCEPT ![t] =
                        IF rows = {} THEN Failed(@, "Resume not found")
                        ELSE IF \E r \in rows : ~r.is_processed
                        THEN [@ EXCEPT !.at = "parse_resume"]
                        ELSE [@ EXCEPT !.at = "get_job"]]
    /\ UNCHANGED <<db, CallVars>>

\* the resume is parsed and the parsed row committed, or the parser raises
ParseResume(t) ==
    /\ tasks[t].at = "parse_resume"
    /\ \E raises \in BOOLEAN :
          IF raises
          THEN tasks' = [tasks EXCEPT ![t] = Failed(@, "parse_resume")] /\ UNCHANGED db
          ELSE /\ db' = [db EXCEPT !.resumes =
                            {ResumeRow(r.id, r.id = TheResume \/ r.is_processed) : r \in @}]
               /\ tasks' = [tasks EXCEPT ![t].at = "get_job"]
    /\ UNCHANGED CallVars

\* job = Job.query.get(job_id)
GetJob(t) ==
    /\ tasks[t].at = "get_job"
    /\ tasks' = [tasks EXCEPT ![t] =
                    IF TheJob \notin db.jobs THEN Failed(@, "Job not found")
                    ELSE [@ EXCEPT !.at = "check_existing"]]
    /\ UNCHANGED <<db, CallVars>>

\* the task's own check for an existing evaluation of the pair
CheckExisting(t) ==
    /\ tasks[t].at = "check_existing"
    /\ LET existing == ExistingEvaluations(TheJob, TheResume)
       IN  tasks' = [tasks EXCEPT ![t] =
                        IF existing # {}
                        THEN [@ EXCEPT !.at = "done", !.status = "already_exists",
                                       !.evaluation_id = (CHOOSE e \in existing : TRUE).id]
                        ELSE [@ EXCEPT !.at = "evaluate_relevance"]]
    /\ UNCHANGED <<db, CallVars>>

\* RelevanceEngine().evaluate_relevance(...) returns or raises
EvaluateRelevance(t) ==
    /\ tasks[t].at = "evaluate_relevance"
    /\ \E raises \in BOOLEAN :
          tasks' = [tasks EXCEPT ![t] =
                       IF raises THEN Failed(@, "evaluate_relevance")
                       ELSE [@ EXCEPT !.at = "commit"]]
    /\ UNCHANGED <<db, CallVars>>

\* db.session.add(evaluation); db.session.commit(): the row is inserted under
\* the table's unique constraint, its id fresh
CommitEvaluation(t) ==
    /\ tasks[t].at = "commit"
    /\ IF UniqueViolation(db.evaluations, TheJob, TheResume)
       THEN /\ tasks' = [tasks EXCEPT ![t] = Failed(@, "IntegrityError")]
            /\ UNCHANGED db
       ELSE /\ db' = [db EXCEPT !.evaluations = @ \cup {EvaluationRow(t, TheJob, TheResume)}]
            /\ tasks' = [tasks EXCEPT ![t] = [@ EXCEPT !.at = "done", !.status = "completed",
                                                       !.evaluation_id = t]]
    /\ UNCHANGED CallVars

NextTasks ==
    \E t \in Tasks :
        \/ CreateEvaluation(t)
        \/ GetResume(t)
        \/ ParseResume(t)
        \/ GetJob(t)
        \/ CheckExisting(t)
        \/ EvaluateRelevance(t)
        \/ CommitEvaluation(t)

SpecTasks == InitTasks /\ [][NextTasks]_vars

(* ================================ claims =============================== *)
\* a call has returned: the pipeline to the service, or the service to its caller
PipelineReturned == pc = "store_embeddings"
ServiceReturned == pc = "returned"
Returned == PipelineReturned \/ ServiceReturned

InRange(score) == RLeq(RZero, score) /\ RLeq(score, RHundred)

WeightedSum(r) ==
    RAdd(RAdd(RMul(Rat(4, 10), r.keyword_score), RMul(Rat(4, 10), r.semantic_score)),
         RMul(Rat(2, 10), r.ats_score))

\* C1: in every returned result keyword_score, semantic_score, ats_score and
\* final_score lie in [0, 100], whatever the similarity rung returned.
C1_ScoresInRange ==
    Returned =>
        /\ InRange(result.keyword_score)
        /\ InRange(result.semantic_score)
        /\ InRange(result.ats_score)
        /\ InRange(result.final_score)

\* C2: in every returned result the verdict is the band of that result's
\* final_score: High iff >= 80, Medium iff in [60, 80), Low iff < 60.
C2_VerdictIsBandOfScore ==
    Returned =>
        /\ result.verdict \in {"High", "Medium", "Low"}
        /\ result.verdict = "High" <=> RLeq(RInt(80), result.final_score)
        /\ result.verdict = "Medium" <=>
              (RLeq(RInt(60), result.final_score) /\ RLt(result.final_score, RInt(80)))
        /\ result.verdict = "Low" <=> RLt(result.final_score, RInt(60))

\* a result whose final score sits on the lower bound of the High band
C2_Witness ==
    ServiceReturned /\ result.final_score = RInt(80) /\ result.verdict = "High"

\* C3: in every returned result final_score is 0.4 * keyword_score +
\* 0.4 * semantic_score + 0.2 * ats_score of that same result.
C3_FinalIsWeightedSum == Returned => result.final_score = WeightedSum(result)

ResultFields ==
    {"keyword_score", "semantic_score", "ats_score", "final_score", "verdict",
     "missing_elements", "strengths", "improvement_feedback", "ats_feedback"}

\* C10: whatever stages raised, the returned result has all nine fields and
\* its missing_elements holds a missing_skills and a missing_qualifications list.
C10_ResultFullyPopulated ==
    Returned =>
        /\ DOMAIN result = ResultFields
        /\ {"missing_skills", "missing_qualifications"} \subseteq DOMAIN result.missing_elements

\* a requirement matches when some resume skill equals it up to letter case
Matches(requirement, skills) ==
    \E j \in DOMAIN skills : Lower(skills[j]) = Lower(requirement)

\* matched items of a requirement list over its size, 0 for an empty list
Coverage(requirements, skills) ==
    IF requirements = <<>> THEN RZero
    ELSE Rat(Cardinality({i \in DOMAIN requirements : Matches(requirements[i], skills)}),
             Len(requirements))

\* C4: keyword_score = 100 * (0.7 * mh_coverage + 0.3 * gh_coverage), an empty
\* list covering 0; so it is at most 70 without good-to-have skills, at most 30
\* without must-have skills and 0 without both.
C4_KeywordScoreFormula ==
    ServiceReturned =>
        /\ result.keyword_score =
              RMul(RHundred,
                   RAdd(RMul(Rat(7, 10), Coverage(jd_data.must_have_skills, resume_data.skills)),
                        RMul(Rat(3, 10),
                             Coverage(jd_data.good_to_have_skills, resume_data.skills))))
        /\ jd_data.good_to_have_skills = <<>> => RLeq(result.keyword_score, RInt(70))
        /\ jd_data.must_have_skills = <<>> => RLeq(result.keyword_score, RInt(30))
        /\ (jd_data.must_have_skills = <<>> /\ jd_data.good_to_have_skills = <<>>)
              => result.keyword_score = RZero

\* half of two must-have skills and the one good-to-have skill matched
C4_Witness ==
    /\ ServiceReturned
    /\ Len(jd_data.must_have_skills) = 2
    /\ Len(jd_data.good_to_have_skills) = 1
    /\ result.keyword_score = RInt(65)

\* the must-have skills without a match, in the job's order and spelling
RECURSIVE Unmatched(_, _)
Unmatched(requirements, skills) ==
    IF requirements = <<>> THEN <<>>
    ELSE (IF Matches(Head(requirements), skills) THEN <<>> ELSE <<Head(requirements)>>)
         \o Unmatched(Tail(requirements), skills)

\* C5: missing_skills is exactly the must-have skills without a
\* case-insensitive exact match in resume.skills, each as the job spells it.
C5_MissingSkillsExact ==
    ServiceReturned =>
        LET missing == result.missing_elements.missing_skills
        IN  /\ missing = Unmatched(jd_data.must_have_skills, resume_data.skills)
            /\ Range(missing) \subseteq Range(jd_data.must_have_skills)

\* a capitalised must-have skill is reported missing while another is matched
C5_Witness ==
    /\ ServiceReturned
    /\ result.missing_elements.missing_skills = <<SP>>
    /\ Len(jd_data.must_have_skills) = 2

\* sub occurs in text at offset k
OccursAt(sub, text, k) ==
    /\ k + Len(sub) <= Len(text)
    /\ \A m \in DOMAIN sub : text[k + m] = sub[m]

\* the education entries joined by single spaces, lowercased
RECURSIVE JoinedEducation(_)
JoinedEducation(education) ==
    IF education = <<>> THEN <<>>
    ELSE IF Len(education) = 1 THEN Lower(education[1])
    ELSE Lower(education[1]) \o <<" ">> \o JoinedEducation(Tail(education))

QualificationPresent(qual, education) ==
    \E k \in 0..Len(JoinedEducation(education)) :
        OccursAt(Lower(qual), JoinedEducation(education), k)

RECURSIVE Absent(_, _)
Absent(quals, education) ==
    IF quals = <<>> THEN <<>>
    ELSE (IF QualificationPresent(Head(quals), education) THEN <<>> ELSE <<Head(quals)>>)
         \o Absent(Tail(quals), education)

\* C6: missing_qualifications is exactly the qualifications whose lowercased
\* text is no substring of the lowercased, space-joined education list.
C6_MissingQualificationsExact ==
    ServiceReturned =>
        result.missing_elements.missing_qualifications =
            Absent(jd_data.qualifications, resume_data.education)

\* a qualification spanning two education entries across the joining space
C6_Witness ==
    /\ ServiceReturned
    /\ jd_data.qualifications = <<QbsCs>>
    /\ resume_data.education = <<QBs, Qcs>>
    /\ result.missing_elements.missing_qualifications = <<>>

\* C7: the must-have skills the lexical matcher counts as found and those
\* the gap analysis reports missing are disjoint and together are all of them.
C7_FoundAndMissingPartition ==
    ServiceReturned =>
        LET must == jd_data.must_have_skills
            found == {must[i] : i \in must_have_found(resume_data, jd_data)}
            missing == Range(result.missing_elements.missing_skills)
        IN  /\ found \cap missing = {}
            /\ found \cup missing = Range(must)
            /\ Cardinality(must_have_found(resume_data, jd_data))
                  + Len(result.missing_elements.missing_skills) = Len(must)

\* one must-have skill found under another letter case, one reported missing
C7_Witness ==
    /\ ServiceReturned
    /\ jd_data.must_have_skills = <<Sp, Ss>>
    /\ resume_data.skills = <<SP>>
    /\ result.missing_elements.missing_skills = <<Ss>>

\* C8: adding a missing must-have skill to resume.skills lowers neither
\* keyword_score nor final_score and takes the skill out of missing_skills.
C8_AddingSkillIsMonotone ==
    (ServiceReturned /\ prev.called /\ prev.added # <<>>) =>
        /\ RLeq(prev.result.keyword_score, result.keyword_score)
        /\ RLeq(prev.result.final_score, result.final_score)
        /\ ~InList(prev.added[1], result.missing_elements.missing_skills)

\* the added skill was reported missing before and raised the keyword score
C8_Witness ==
    /\ ServiceReturned
    /\ prev.called
    /\ prev.added # <<>>
    /\ InList(prev.added[1], prev.result.missing_elements.missing_skills)
    /\ RLt(prev.result.keyword_score, result.keyword_score)

\* C9: the same pair evaluated again under the same configuration gives the
\* same result in every field.
C9_RepeatedCallSameResult ==
    (ServiceReturned /\ prev.called /\ prev.added = <<>>) => result = prev.result

\* the evaluation neither fell back as a whole nor lost its feedback stage
FeedbackStageRan ==
    /\ Returned
    /\ ~InList("Error in evaluation pipeline", log)
    /\ ~InList("Error in feedback generation", log)

\* the feedback backend is absent, or its call raised
BackendAbsentOrErroring == ~env.llm \/ InList("Error generating LLM feedback", log)

SkillsSentence == "Missing must-have skills: "
QualificationsSentence == "Consider adding qualifications: "
GenericSentence == "Consider gaining more relevant experience in the required technologies."
AffirmingSentence == "Your resume looks strong for this position!"

SentenceRank(kind) ==
    CASE kind = SkillsSentence -> 1
      [] kind = QualificationsSentence -> 2
      [] kind = GenericSentence -> 3
      [] kind = AffirmingSentence -> 4
      [] OTHER -> 0

\* C11: the deterministic feedback holds, in this order, the skills sentence
\* iff missing_skills is non-empty, the qualifications sentence iff
\* missing_qualifications is non-empty, the generic sentence iff final_score < 60,
\* and the affirming sentence iff none of the three; it is never empty.
C11_FeedbackComposition ==
    (FeedbackStageRan /\ BackendAbsentOrErroring) =>
        LET fb == result.improvement_feedback
            ms == Get(result.missing_elements, "missing_skills")
            mq == Get(result.missing_elements, "missing_qualifications")
            low == RLt(result.final_score, RInt(60))
        IN  /\ fb # <<>>
            /\ \A i \in DOMAIN fb : SentenceRank(fb[i].kind) > 0
            /\ \A i, j \in DOMAIN fb :
                  i < j => SentenceRank(fb[i].kind) < SentenceRank(fb[j].kind)
            /\ InList([kind |-> SkillsSentence, items |-> ms], fb) <=> ms # <<>>
            /\ InList([kind |-> QualificationsSentence, items |-> mq], fb) <=> mq # <<>>
            /\ InList([kind |-> GenericSentence, items |-> <<>>], fb) <=> low
            /\ InList([kind |-> AffirmingSentence, items |-> <<>>], fb)
                  <=> (ms = <<>> /\ mq = <<>> /\ ~low)
            /\ \A i \in DOMAIN fb :
                  /\ fb[i].kind = SkillsSentence => fb[i].items = ms
                  /\ fb[i].kind = QualificationsSentence => fb[i].items = mq

\* all three sentences emitted, without an LLM
C11_Witness ==
    /\ FeedbackStageRan
    /\ ~env.llm
    /\ Len(result.improvement_feedback) = 3
    /\ result.improvement_feedback[1].kind = SkillsSentence

\* C12: with the feedback backend absent, or configured and raising, the
\* feedback of the result is what the deterministic composer makes of the
\* result's own missing elements and final score.
C12_FallbackIsComposer ==
    (FeedbackStageRan /\ BackendAbsentOrErroring) =>
        result.improvement_feedback =
            _generate_basic_feedback(result.missing_elements, result.final_score)

\* the backend is configured, its call raised, and the composer's text is there
C12_Witness ==
    /\ FeedbackStageRan
    /\ env.llm
    /\ InList("Error generating LLM feedback", log)
    /\ result.improvement_feedback # <<>>
    /\ result.improvement_feedback[1].kind \in {SkillsSentence, AffirmingSentence}

Checked == pc = "checked"

\* a penalty that applies when its condition holds
Penalty(condition, points) == IF condition THEN points ELSE 0

BothContactsFound ==
    ContactSearch(1, resume_data.extracted_text) /\ ContactSearch(2, resume_data.extracted_text)

\* the penalties for what the text contains besides tables
OtherFormattingPenalties ==
    LET text == resume_data.extracted_text
    IN  Penalty(FindAll("complex_formatting", text) > 0, 20)
        + Penalty(FindAll("images", text) > 0, 25)
        + Penalty(FindAll("columns", text) > 0, 20)
        + Penalty(FindAll("headers_footers", text) > 0, 15)
        + Penalty(FindAll("text_boxes", text) > 0, 20)
        + Penalty(FindAll("special_chars", text) > 10, 15)

\* P: the sum of the penalties of every condition that holds
TotalPenalty ==
    Penalty(FindAll("tables", resume_data.extracted_text) > 0, 30)
    + OtherFormattingPenalties
    + Penalty(resume_data.skills = <<>>, 20)
    + Penalty(resume_data.experience = <<>>, 25)
    + Penalty(resume_data.education = <<>>, 15)
    + Penalty(~BothContactsFound, 10)

\* C13: the compatibility score is max(0, 100 - P), P the sum of the penalties
\* of all conditions that hold, each counted once and all stacking.
C13_ScoreIsFlooredPenaltySum ==
    Checked => result.score = (IF TotalPenalty > 100 THEN 0 ELSE 100 - TotalPenalty)

\* penalties stacking beyond 100 with an image among them: the floor applies
C13_Witness ==
    /\ Checked
    /\ TotalPenalty > 100
    /\ FindAll("images", resume_data.extracted_text) > 0
    /\ result.score = 0

\* C14: the friendly flag is true iff the returned, floored score is >= 70.
C14_FriendlyIffSeventy ==
    Checked => (result.is_ats_friendly <=> result.score >= 70)

\* a score of exactly 70 is friendly
C14_Witness ==
    /\ Checked
    /\ result.score = 70
    /\ result.is_ats_friendly

ScenarioD ==
    /\ Checked
    /\ FindAll("tables", resume_data.extracted_text) > 0
    /\ resume_data.skills = <<>>
    /\ resume_data.experience = <<>>
    /\ resume_data.education = <<>>

\* C15 as stated: a text with a <table> marker and a record without skills,
\* experience and education sections scores 10 and is not friendly.
C15_ScenarioD_AsStated ==
    ScenarioD => (result.score = 10 /\ ~result.is_ats_friendly)

\* C15: in scenario D the score is 10 when the text also holds an e-mail
\* address and a phone number and nothing else that is penalised; it is 0 when
\* one of the two contact patterns is missing; it is never friendly.
C15_ScenarioD_WithContacts ==
    ScenarioD =>
        /\ ~result.is_ats_friendly
        /\ (BothContactsFound /\ OtherFormattingPenalties = 0) => result.score = 10
        /\ ~BothContactsFound => result.score = 0

\* scenario D on a text with a table, an e-mail address and a phone number
C15_Witness ==
    /\ ScenarioD
    /\ BothContactsFound
    /\ result.score = 10

\* C16: no step of an evaluation, on any path, changes the resume record or
\* the job record it was given.
C16_InputsNotMutated ==
    [][resume_data' = resume_data /\ jd_data' = jd_data]_vars

\* an evaluation that went through every stage on a text with table markup
\* and returned, the records still being the ones the state refers to
C16_Witness ==
    /\ ServiceReturned
    /\ resume_data.extracted_text = TextTable
    /\ state.resume_data = resume_data
    /\ state.jd_data = jd_data
    /\ state.verdict # ""

\* C17: one call of evaluate_resume writes no shared store: no state that
\* outlives the call is changed.
C17_NoStoreWritten ==
    [][store' = store]_vars

Compared == pc = "compared"

RungRank(rung) ==
    CASE rung = "embedding" -> 1
      [] rung = "tfidf" -> 2
      [] rung = "jaccard" -> 3

\* C18: the rungs are called in the order embedding, TF-IDF, Jaccard, starting
\* at the embedding rung iff a model is loaded; a rung is called only after
\* the rung before it failed, and the first rung that does not fail gives the
\* result, after which no rung is called.
C18_LadderOrder ==
    Compared =>
        LET a == result.attempts
            text1 == resume_data.extracted_text
            text2 == jd_data.description
        IN  /\ a # <<>>
            /\ a[1].rung = (IF env.model THEN "embedding" ELSE "tfidf")
            /\ \A i \in 1..(Len(a) - 1) :
                  /\ a[i].failed
                  /\ RungRank(a[i + 1].rung) = RungRank(a[i].rung) + 1
            /\ a[Len(a)].failed <=> result.raised
            /\ result.raised => a[Len(a)].rung = "jaccard"
            /\ ~result.raised =>
                  /\ result.rung = a[Len(a)].rung
                  /\ result.rung = "tfidf" => result.value = _tfidf_similarity(text1, text2)
                  /\ result.rung = "jaccard" => result.value = _fallback_similarity(text1, text2)

\* the embedding rung and the TF-IDF rung failed, the Jaccard rung answered
C18_Witness ==
    /\ Compared
    /\ ~result.raised
    /\ result.rung = "jaccard"
    /\ Len(result.attempts) = 3
    /\ result.value = Rat(1, 2)

\* the TF-IDF rung has nothing to work with: a text without tokens, or no
\* token shared by the two texts (every weight is then 0, every norm 0)
TfidfDegenerate ==
    LET words1 == _tokenize(resume_data.extracted_text)
        words2 == _tokenize(jd_data.description)
    IN  Range(words1) \cap Range(words2) = {}

\* C19: a degenerate TF-IDF rung (empty token list, zero-magnitude vector)
\* falls through: the similarity returned is the Jaccard rung's value on the
\* same two texts.
C19_DegenerateTfidfFallsThrough ==
    (Compared /\ ~result.raised /\ result.rung = "tfidf" /\ TfidfDegenerate) =>
        result.value = _fallback_similarity(resume_data.extracted_text, jd_data.description)

KeywordFailed == InList("Error in keyword analysis", log)
SemanticFailed == InList("Error in semantic analysis", log)
AtsFailed == InList("Error in ATS analysis", log)

\* the pipeline returned after exactly one of its three matcher stages failed
OneMatcherFailed ==
    /\ PipelineReturned
    /\ ~InList("Error in evaluation pipeline", log)
    /\ ~InList("Error in score calculation", log)
    /\ Cardinality({failed \in {"keyword", "semantic", "ats"} :
                       \/ failed = "keyword" /\ KeywordFailed
                       \/ failed = "semantic" /\ SemanticFailed
                       \/ failed = "ats" /\ AtsFailed}) = 1

\* what each matcher stage computes for the pair when its try block completes
KeywordComputed == _keyword_analysis(InitialState(resume_data, jd_data), FALSE).keyword_score
AtsComputed == _ats_analysis(InitialState(resume_data, jd_data), FALSE).ats_score
SemanticComputed(faults) ==
    _semantic_analysis(InitialState(resume_data, jd_data),
                       calculate_similarity(resume_data.extracted_text, jd_data.description,
                                            env, faults)).semantic_score

\* the failed stage reports 0, the other two what they computed, and the
\* final score is the weighted sum of the three
FailedStageSubstitution ==
    OneMatcherFailed =>
        /\ result.keyword_score = (IF KeywordFailed THEN RZero ELSE KeywordComputed)
        /\ result.ats_score = (IF AtsFailed THEN RZero ELSE AtsComputed)
        /\ IF SemanticFailed THEN result.semantic_score = RZero
           ELSE \E faults \in SimilarityFaults \ {{"encode", "tfidf", "jaccard"}} :
                   result.semantic_score = SemanticComputed(faults)
        /\ result.final_score = WeightedSum(result)

VerdictRank(verdict) ==
    CASE verdict = "Low" -> 0
      [] verdict = "Medium" -> 1
      [] verdict = "High" -> 2

BandOf(score) ==
    IF RLeq(RInt(80), score) THEN "High"
    ELSE IF RLeq(RInt(60), score) THEN "Medium"
    ELSE "Low"

\* the verdict of the same evaluation had the failed stage completed
VerdictWithoutFailure ==
    BandOf(WeightedSum([keyword_score |-> IF KeywordFailed THEN KeywordComputed
                                          ELSE result.keyword_score,
                        semantic_score |-> IF SemanticFailed THEN SemanticComputed({})
                                           ELSE result.semantic_score,
                        ats_score |-> IF AtsFailed THEN AtsComputed ELSE result.ats_score]))

\* C20: when one matcher stage fails, its sub-score is 0, the other two are
\* what their stages computed, final_score is the weighted sum with that 0,
\* and the verdict is not above the verdict of the same evaluation without
\* the failure.
C20_FailedStageCountsZero ==
    /\ FailedStageSubstitution
    /\ OneMatcherFailed => VerdictRank(result.verdict) <= VerdictRank(VerdictWithoutFailure)

(* ------------------------- the order of the stages -------------------- *)
StageOrder ==
    <<"keyword_analysis", "semantic_analysis", "ats_analysis", "score_calculation",
      "strength_analysis", "feedback_generation", "pipeline_return">>

StageRank(stage) == CHOOSE i \in DOMAIN StageOrder : StageOrder[i] = stage

\* the handler around the whole pipeline gave the evaluation up
PipelineAbandoned ==
    pc' = "store_embeddings" /\ result' = _fallback_evaluation /\ state' = state

MatcherFields == <<state.keyword_score, state.semantic_score, state.ats_score>>
AggregateFields == <<state.final_score, state.verdict, state.missing_elements>>

\* C21: within one evaluation the stages run in one fixed order, each once, the
\* same with and without the compiled graph: a step of a stage leads to the next
\* stage of the order; the three sub-scores are written only by the three
\* matchers, which come before aggregation; final score, verdict and missing
\* elements are written only by the aggregation stage; the feedback only by the
\* feedback stage, after it; and the result is returned from the state the
\* feedback stage left. (An evaluation the whole-pipeline handler gives up
\* returns the fixed fallback instead.)
C21_FixedStageOrder ==
    [][/\ pc \in Stages =>
            \/ PipelineAbandoned
            \/ /\ StageRank(pc') = StageRank(pc) + 1
               /\ MatcherFields' # MatcherFields => StageRank(pc) < StageRank("score_calculation")
               /\ AggregateFields' # AggregateFields => pc = "score_calculation"
               /\ state'.improvement_feedback # state.improvement_feedback
                     => pc = "feedback_generation"
       /\ pc' = "pipeline_return" => pc = "feedback_generation"
       /\ pc = "pipeline_return" => result' = Returns(state) /\ pc' \notin Stages]_vars

C21_Witness ==
    /\ PipelineReturned
    /\ env.langgraph
    /\ result = Returns(state)
    /\ result.verdict = "Medium"
    /\ Len(result.improvement_feedback) > 0
    /\ log = <<>>

(* ----------------------- the embedding backend's answer --------------- *)
\* C22: the call of the embedding backend is bounded, so that an evaluation
\* whose backend never answers still ends: every evaluation eventually returns
\* (or raises to its caller), none stays inside the backend call.
C22_EvaluationEventuallyEnds == <>(pc \in {"returned", "raised"})

(* ------------------ repeated and padded skill entries ----------------- *)
Aggregated == pc = "aggregated"

\* the entries of list up to position n, without those that repeat an earlier
\* entry up to letter case
RECURSIVE DeduplicatedUpTo(_, _)
DeduplicatedUpTo(list, n) ==
    IF n = 0 THEN <<>>
    ELSE DeduplicatedUpTo(list, n - 1)
         \o (IF \E j \in 1..(n - 1) : Lower(list[j]) = Lower(list[n]) THEN <<>>
             ELSE <<list[n]>>)

Deduplicated(list) == DeduplicatedUpTo(list, Len(list))

LexicalScore(must_coverage, good_coverage) ==
    RMul(RHundred, RAdd(RMul(Rat(7, 10), must_coverage), RMul(Rat(3, 10), good_coverage)))

\* C23: repeated entries are dropped before lexical scoring: the keyword score
\* of lists in which an item is repeated (same string up to case) is the score
\* of the deduplicated must-have, good-to-have and resume skill lists.
C23_DuplicatesDoNotCount ==
    Aggregated =>
        result.keyword_score =
            LexicalScore(Coverage(Deduplicated(jd_data.must_have_skills),
                                  Deduplicated(resume_data.skills)),
                         Coverage(Deduplicated(jd_data.good_to_have_skills),
                                  Deduplicated(resume_data.skills)))

RECURSIVE TrimLeft(_)
TrimLeft(string) ==
    IF string # <<>> /\ Head(string) = " " THEN TrimLeft(Tail(string)) ELSE string

RECURSIVE TrimRight(_)
TrimRight(string) ==
    IF string # <<>> /\ string[Len(string)] = " "
    THEN TrimRight(SubSeq(string, 1, Len(string) - 1))
    ELSE string

Normalized(string) == Lower(TrimRight(TrimLeft(string)))

\* the same skill up to letter case and surrounding whitespace
SameSkill(requirement, skills) ==
    \E j \in DOMAIN skills : Normalized(skills[j]) = Normalized(requirement)

SameSkillCoverage(requirements, skills) ==
    IF requirements = <<>> THEN RZero
    ELSE Rat(Cardinality({i \in DOMAIN requirements : SameSkill(requirements[i], skills)}),
             Len(requirements))

\* C24: the lexical matcher and the gap analyzer compare skills in trimmed,
\* lowercased form on both sides: a job skill whose resume counterpart differs
\* only in letter case or surrounding whitespace counts as found in the keyword
\* score and is not reported in missing_skills.
C24_TrimmedComparison ==
    Aggregated =>
        /\ result.keyword_score =
              LexicalScore(SameSkillCoverage(jd_data.must_have_skills, resume_data.skills),
                           SameSkillCoverage(jd_data.good_to_have_skills, resume_data.skills))
        /\ \A i \in DOMAIN jd_data.must_have_skills :
              SameSkill(jd_data.must_have_skills[i], resume_data.skills)
                 => ~InList(jd_data.must_have_skills[i], result.missing_elements.missing_skills)

\* C27: without must-have skills, and with the two other sub-scores in
\* [0, 100], the keyword score is at most 30, the final score at most 72 and the
\* verdict never High.
C27_NoMustHaveCapsScore ==
    (/\ Aggregated
     /\ jd_data.must_have_skills = <<>>
     /\ InRange(result.semantic_score)
     /\ InRange(result.ats_score))
        => /\ RLeq(result.keyword_score, RInt(30))
           /\ RLeq(result.final_score, RInt(72))
           /\ result.verdict # "High"

\* the cap is reached: the good-to-have skill matched, both other sub-scores 100
C27_Witness ==
    /\ Aggregated
    /\ jd_data.must_have_skills = <<>>
    /\ result.keyword_score = RInt(30)
    /\ result.semantic_score = RHundred
    /\ result.ats_score = RHundred
    /\ result.final_score = RInt(72)
    /\ result.verdict = "Medium"

(* --------------------- surfaced issues and quick fixes ---------------- *)
\* the issues in the order the checker looks for them
DetectionOrder ==
    <<"Contains tables", "Complex formatting detected", "Too many special characters",
      "Contains images", "Multi-column layout", "Headers/footers detected",
      "Interactive elements", "Missing skills section", "Missing experience section",
      "Missing education section", "Incomplete contact information">>

IssueDetected(issue) ==
    LET text == resume_data.extracted_text
    IN  CASE issue = "Contains tables" -> FindAll("tables", text) > 0
          [] issue = "Complex formatting detected" -> FindAll("complex_formatting", text) > 0
          [] issue = "Too many special characters" -> FindAll("special_chars", text) > 10
          [] issue = "Contains images" -> FindAll("images", text) > 0
          [] issue = "Multi-column layout" -> FindAll("columns", text) > 0
          [] issue = "Headers/footers detected" -> FindAll("headers_footers", text) > 0
          [] issue = "Interactive elements" -> FindAll("text_boxes", text) > 0
          [] issue = "Missing skills section" -> resume_data.skills = <<>>
          [] issue = "Missing experience section" -> resume_data.experience = <<>>
          [] issue = "Missing education section" -> resume_data.education = <<>>
          [] issue = "Incomplete contact information" -> ~BothContactsFound

DetectedIssues == SelectSeq(DetectionOrder, LAMBDA issue : IssueDetected(issue))

\* C25: main_issues is the first three detected issues, all of them when fewer
\* than three were detected, in detection order (formatting patterns in their
\* fixed order, then missing skills, experience, education, then incomplete
\* contact information), whatever their penalties; quick_fixes has at most
\* three entries.
C25_FirstThreeInDetectionOrder ==
    Checked =>
        /\ Len(result.main_issues) = (IF Len(DetectedIssues) < 3 THEN Len(DetectedIssues) ELSE 3)
        /\ \A i \in DOMAIN result.main_issues : result.main_issues[i] = DetectedIssues[i]
        /\ Len(result.quick_fixes) <= 3

\* more than three issues detected, a 20-point issue surfaced before a 25-point
\* one and a 25-point issue cut off
C25_Witness ==
    /\ Checked
    /\ Len(DetectedIssues) > 3
    /\ result.main_issues =
          <<"Complex formatting detected", "Contains images", "Multi-column layout">>
    /\ IssueDetected("Missing experience section")
    /\ Len(result.quick_fixes) = 3

\* the issue a quick fix answers
IssueOfFix(fix) ==
    CASE fix = "Convert tables to plain text" -> "Contains tables"
      [] fix = "Use simple formatting" -> "Complex formatting detected"
      [] fix = "Remove images and graphics" -> "Contains images"
      [] fix = "Add a skills section" -> "Missing skills section"
      [] fix = "Add work experience" -> "Missing experience section"
      [] fix = "Add education details" -> "Missing education section"
      [] fix = "Add email and phone number" -> "Incomplete contact information"

\* C26: every quick fix of a result answers an issue in main_issues of the same
\* result.
C26_FixesAnswerSurfacedIssues ==
    Checked =>
        \A i \in DOMAIN result.quick_fixes :
            InList(IssueOfFix(result.quick_fixes[i]), result.main_issues)

(* ------------------------- the TF-IDF rung's words -------------------- *)
CommonWords ==
    Range(_tokenize(resume_data.extracted_text)) \cap Range(_tokenize(jd_data.description))

\* the cosine of the two vectors of counts of the words both texts hold
CommonWordsCosine ==
    LET count1 == [w \in CommonWords |-> CountOf(_tokenize(resume_data.extracted_text), w)]
        count2 == [w \in CommonWords |-> CountOf(_tokenize(jd_data.description), w)]
    IN  IF CommonWords = {} THEN RZero
        ELSE RDiv(RInt(DotProduct(CommonWords, count1, count2)),
                  RSqrt(DotProduct(CommonWords, count1, count1)
                        * DotProduct(CommonWords, count2, count2)))

LogsLast(message) == Len(log') > Len(log) /\ log'[Len(log')] = message

UnableToGenerate == <<Sentence("Unable to generate feedback at this time.", <<>>)>>

\* C30: a failure of the strengths stage or of the feedback stage changes only
\* that stage's own field of the state (strengths becomes the empty list,
\* improvement_feedback the fixed text); the three sub-scores, final score,
\* verdict, missing elements and ATS feedback stay as the earlier stages left
\* them, and are returned so.
C30_LateFailuresTouchOwnField ==
    [][/\ (pc = "strength_analysis" /\ LogsLast("Error in strength analysis"))
             => state' = [state EXCEPT !.strengths = <<>>]
       /\ (pc = "feedback_generation" /\ LogsLast("Error in feedback generation"))
             => state' = [state EXCEPT !.improvement_feedback = UnableToGenerate]
       /\ pc = "pipeline_return" => result' = Returns(state)]_vars

\* both stages failed after a Medium verdict, and the result was returned
C30_Witness ==
    /\ PipelineReturned
    /\ InList("Error in strength analysis", log)
    /\ InList("Error in feedback generation", log)
    /\ result = Returns(state)
    /\ result.strengths = <<>>
    /\ result.improvement_feedback = UnableToGenerate
    /\ result.verdict = "Medium"
    /\ result.missing_elements # EmptyDict

(* ---------------------- concurrent evaluation tasks ------------------- *)
Completed == {t \in Tasks : tasks[t].status = "completed"}

\* C28: however process_resume_evaluation tasks for the same (resume_id,
\* job_id) interleave, at most one Evaluation row for the pair is committed and
\* at most one task returns 'completed'; every other task that returned gave
\* 'already_exists' or 'error', and the committed rows are those of the
\* completed task alone.
C28_OneEvaluationPerPair ==
    pc = "tasks" =>
        /\ Cardinality(ExistingEvaluations(TheJob, TheResume)) <= 1
        /\ Cardinality(Completed) <= 1
        /\ \A t \in Tasks :
              tasks[t].at = "done" => tasks[t].status \in {"completed", "already_exists", "error"}
        /\ db.evaluations = {EvaluationRow(t, TheJob, TheResume) : t \in Completed}

\* two tasks passed the check together: one committed, the other's commit was
\* refused
C28_Witness ==
    /\ pc = "tasks"
    /\ \E t, u \in Tasks :
          /\ tasks[t].status = "completed"
          /\ tasks[u].status = "error"
          /\ tasks[u].message = "IntegrityError"
    /\ Cardinality(db.evaluations) = 1

====
